---- MODULE Spec2Model ----
(***************************************************************************)
(* Model of dataProcessing/process_date.py: the forecast-grid              *)
(* consolidation pipeline (spatial normalizer, grid combiner, redundant    *)
(* field pruner, sequence flattener, chunk planner and writer).            *)
(*                                                                         *)
(* Coordinate values are integers (degrees).  Variable payloads are        *)
(* abstract tags; xarray/pandas/dask operations are modelled by what they  *)
(* do to coordinates, variable names, dimensions and chunk sizes.          *)
(***************************************************************************)
EXTENDS Integers, Sequences, FiniteSets, TLC

VARIABLES
    gf,        \* normalizer: the GridFrame passed to preprocess_slice_flip
    nout,      \* normalizer: the returned GridFrame
    npc,       \* normalizer: "call" before, "returned" after
    fin,       \* flattener: the dataset passed to flatten_sequence_vars
    fout,      \* flattener: the dataset it returned
    fout2,     \* flattener: the result of applying it to its own output
    fpc,       \* flattener: "call", "returned", "reapplied"
    pin,       \* pruner: dataset before the pruning loop
    pout,      \* pruner: dataset after the pruning loop
    pout2,     \* pruner: dataset after running the loop a second time
    ppc,       \* pruner: "call", "returned", "reapplied"
    args,      \* process_one_date: its arguments
    fs,        \* process_one_date: the paths the glob pattern matches on disk
    decoded,   \* process_one_date: what the decoder yields for each file
    pc,        \* process_one_date: position in the function body
    files,     \* process_one_date: local `files`
    ds,        \* process_one_date: local `ds`
    chunks,    \* process_one_date: dask chunk sizes of `ds` along step
    store,     \* the Zarr store at the output location
    stdout,    \* the lines printed
    err,       \* the exception process_one_date raised
    log        \* the stages executed so far, in order

vars == <<gf, nout, npc, fin, fout, fout2, fpc, pin, pout, pout2, ppc,
          args, fs, decoded, pc, files, ds, chunks, store, stdout, err, log>>

nvars == <<gf, nout, npc>>
fvars == <<fin, fout, fout2, fpc>>
pvars == <<pin, pout, pout2, ppc>>
dvars == <<args, fs, decoded, pc, files, ds, chunks, store, stdout, err, log>>

(***************************************************************************)
(* Bounds of the model.                                                    *)
(***************************************************************************)
MaxAxisLen == 3

\* Coordinate values the input axes are drawn from: outside, on and inside
\* the bounding box.
LatVals == {-80, -70, -30, 0, 10}
LonVals == {-70, -60, 135, 140}

(***************************************************************************)
(* Program constants.                                                      *)
(***************************************************************************)
LatMin == -70
LatMax == 0
LonMin == -60
LonMax == 135

\* Python's None, and the value of a variable not in use
None == [none |-> TRUE]

(***************************************************************************)
(* Sequence helpers.                                                       *)
(***************************************************************************)
Range(s) == {s[i] : i \in 1..Len(s)}

StrictlyAscending(s) == \A i \in 1..(Len(s) - 1) : s[i] < s[i + 1]

StrictlyDescending(s) == \A i \in 1..(Len(s) - 1) : s[i] > s[i + 1]

\* pandas Index.is_monotonic_increasing / is_monotonic_decreasing
is_monotonic_increasing(s) == \A i \in 1..(Len(s) - 1) : s[i] <= s[i + 1]

is_monotonic_decreasing(s) == \A i \in 1..(Len(s) - 1) : s[i] >= s[i + 1]

\* Latitude axes a decoded GridFrame can carry: strictly monotonic, either
\* direction (GRIB2 regular grids scan north to south or south to north).
Axes(V) ==
    {s \in UNION {[1..k -> V] : k \in 1..MaxAxisLen} :
        StrictlyAscending(s) \/ StrictlyDescending(s)}

\* Longitude axes: west to east; the code applies no flip to longitude.
AscendingAxes(V) == {s \in Axes(V) : StrictlyAscending(s)}

(***************************************************************************)
(* Spatial Normalizer                                                      *)
(***************************************************************************)
\* dset.isel(latitude=slice(None, None, -1)): index order reversed, always.
isel_reverse(s) == [i \in 1..Len(s) |-> s[Len(s) + 1 - i]]

\* numpy searchsorted on an ascending array: insertion point (0-based).
searchsorted(s, label, side) ==
    IF side = "left"
    THEN Cardinality({i \in 1..Len(s) : s[i] < label})
    ELSE Cardinality({i \in 1..Len(s) : s[i] <= label})

\* pandas Index.get_slice_bound on a unique monotonic index (0-based):
\* the position of the label when present, otherwise the insertion point;
\* a decreasing index is searched through its reverse.
get_slice_bound(s, label, side) ==
    IF label \in Range(s)
    THEN LET loc == (CHOOSE i \in 1..Len(s) : s[i] = label) - 1
         IN  IF side = "left" THEN loc ELSE loc + 1
    ELSE IF is_monotonic_increasing(s)
         THEN searchsorted(s, label, side)
         ELSE Len(s) - searchsorted(isel_reverse(s), label,
                                    IF side = "left" THEN "right" ELSE "left")

\* Variant of sel_slice: selection by a value mask, which keeps the order of
\* the axis whatever its direction.
sel_slice_mask(s, lo, hi) == SelectSeq(s, LAMBDA v : lo <= v /\ v <= hi)

\* dset.sel(dim=slice(lo, hi)): label-based slice, positions [start, stop).
sel_slice(s, lo, hi) ==
    LET start == get_slice_bound(s, lo, "left")
        stop  == get_slice_bound(s, hi, "right")
    IN  SubSeq(s, start + 1, stop)

preprocess_slice_flip(dset) ==
    LET flipped == [dset EXCEPT !.latitude = isel_reverse(@)]
    IN  [flipped EXCEPT !.latitude  = sel_slice(@, LatMin, LatMax),
                        !.longitude = sel_slice(@, LonMin, LonMax)]

GridFrames == [latitude : Axes(LatVals), longitude : AscendingAxes(LonVals)]

NormalizerIdle == gf = None /\ nout = None /\ npc = "idle"
FlattenerIdle == fin = None /\ fout = None /\ fout2 = None /\ fpc = "idle"
PrunerIdle == pin = None /\ pout = None /\ pout2 = None /\ ppc = "idle"
PipelineIdle ==
    /\ args = None /\ fs = {} /\ decoded = None /\ pc = "idle"
    /\ files = None /\ ds = None /\ chunks = None /\ store = None
    /\ stdout = <<>> /\ err = None /\ log = <<>>

InitNormalizer ==
    /\ gf \in GridFrames
    /\ nout = None
    /\ npc = "call"
    /\ FlattenerIdle
    /\ PrunerIdle
    /\ PipelineIdle

Normalize ==
    /\ npc = "call"
    /\ nout' = preprocess_slice_flip(gf)
    /\ npc' = "returned"
    /\ UNCHANGED <<gf, fvars, pvars, dvars>>

NextNormalizer == Normalize

SpecNormalizer == InitNormalizer /\ [][NextNormalizer]_vars

\* The in-box part of an axis, as a set of coordinate values.
InBox(s, lo, hi) == {v \in Range(s) : lo <= v /\ v <= hi}

\* C1: for every GridFrame, ascending or descending, the latitude axis of the
\* frame returned by preprocess_slice_flip is strictly ascending.
C1_LatAscending ==
    npc = "returned" => StrictlyAscending(nout.latitude)

\* C1 witness: a descending input axis came back as an ascending axis of at
\* least two latitudes.
C1_Witness ==
    /\ npc = "returned"
    /\ StrictlyDescending(gf.latitude)
    /\ Len(nout.latitude) >= 2
    /\ nout.latitude[1] < nout.latitude[2]

\* C2: for every GridFrame the returned axes hold exactly the input
\* coordinates inside the closed box [-70, 0] x [-60, 135].
C2_ExactCrop ==
    npc = "returned" =>
        /\ Range(nout.latitude) = InBox(gf.latitude, LatMin, LatMax)
        /\ Range(nout.longitude) = InBox(gf.longitude, LonMin, LonMax)

(***************************************************************************)
(* Datasets                                                                *)
(*                                                                         *)
(* A dataset is a record                                                   *)
(*   order  : the data variable names, in insertion order                  *)
(*   var    : data variable name -> [dims, data]                           *)
(*   coords : coordinate name -> [dims, data]                              *)
(* A variable without the sequence axis carries one payload tag, a         *)
(* variable with it carries a sequence of K tags (one per slice).          *)
(***************************************************************************)
MaxK == 3

SEQUENCE_VARS == <<"shts", "mpts", "swdir">>

ordered_seq_dim == "orderedSequenceData"

Dims3 == <<"step", "latitude", "longitude">>
Dims4 == <<"step", "orderedSequenceData", "latitude", "longitude">>

Restrict(f, S) == [x \in S |-> f[x]]

\* dset.variables: data variables and coordinates together
Variables(dset) == DOMAIN dset.var \cup DOMAIN dset.coords

\* dset[name]
GetVar(dset, name) ==
    IF name \in DOMAIN dset.var THEN dset.var[name] ELSE dset.coords[name]

\* dset.dims: the dimensions used by at least one variable
Dims(dset) == UNION {Range(GetVar(dset, n).dims) : n \in Variables(dset)}

\* dset.sizes[dim], for the sequence axis: the length every variable that uses
\* it has along it
SizeOf(dset, dim) ==
    LET holder == CHOOSE n \in Variables(dset) : dim \in Range(GetVar(dset, n).dims)
    IN  Len(GetVar(dset, holder).data)

\* dset.drop_vars(name), name present
drop_vars(dset, name) ==
    [order  |-> SelectSeq(dset.order, LAMBDA x : x # name),
     var    |-> Restrict(dset.var, DOMAIN dset.var \ {name}),
     coords |-> Restrict(dset.coords, DOMAIN dset.coords \ {name})]

\* dset.drop_dims(dim): drops every variable, coordinates included, that uses dim
drop_dims(dset, dim) ==
    LET keep(n) == dim \notin Range(GetVar(dset, n).dims)
    IN  [order  |-> SelectSeq(dset.order, keep),
         var    |-> Restrict(dset.var, {n \in DOMAIN dset.var : keep(n)}),
         coords |-> Restrict(dset.coords, {n \in DOMAIN dset.coords : keep(n)})]

\* dset[name] = value: a new data variable goes last, an existing one keeps
\* its place
SetItem(dset, name, value) ==
    [dset EXCEPT
        !.order = IF name \in DOMAIN dset.var THEN @ ELSE Append(@, name),
        !.var   = [x \in DOMAIN dset.var \cup {name} |->
                      IF x = name THEN value ELSE dset.var[x]]]

\* da.isel(orderedSequenceData=i), i counted from 0: slice i, axis removed
isel_seq(v, i) ==
    [dims |-> SelectSeq(v.dims, LAMBDA d : d # ordered_seq_dim),
     data |-> v.data[i + 1]]

(***************************************************************************)
(* Redundant Field Pruner: the loop of process_one_date                    *)
(***************************************************************************)
PRUNED_VARS == <<"surface", "valid_time">>

\* Variant of prune_from: stops after the first field it drops.
RECURSIVE prune_from_first(_, _)
prune_from_first(dset, k) ==
    IF k > Len(PRUNED_VARS) THEN dset
    ELSE IF PRUNED_VARS[k] \in Variables(dset)
         THEN drop_vars(dset, PRUNED_VARS[k])
         ELSE prune_from_first(dset, k + 1)

RECURSIVE prune_from(_, _)
prune_from(dset, k) ==
    IF k > Len(PRUNED_VARS) THEN dset
    ELSE LET v == PRUNED_VARS[k]
         IN  prune_from(IF v \in Variables(dset) THEN drop_vars(dset, v) ELSE dset,
                        k + 1)

prune(dset) == prune_from(dset, 1)

(***************************************************************************)
(* Sequence Flattener                                                      *)
(***************************************************************************)
\* Variant of flat_name: suffixes counted from 1.
flat_name_from_one(var, i) == var \o "_" \o ToString(i + 1)

\* f"{var}_{i}"
flat_name(var, i) == var \o "_" \o ToString(i)

\* for i in range(n): out[f"{var}_{i}"] = out[var].isel(orderedSequenceData=i)
RECURSIVE flatten_slices(_, _, _, _)
flatten_slices(out, var, i, n) ==
    IF i >= n THEN out
    ELSE flatten_slices(SetItem(out, flat_name(var, i),
                                isel_seq(GetVar(out, var), i)),
                        var, i + 1, n)

\* Variant of flatten_one: the original variable is not removed.
flatten_one_keep(out, var, n) ==
    IF var \in Variables(out) /\ ordered_seq_dim \in Range(GetVar(out, var).dims)
    THEN flatten_slices(out, var, 0, n)
    ELSE out

\* body of the loop over vars_to_flatten
flatten_one(out, var, n) ==
    IF var \in Variables(out) /\ ordered_seq_dim \in Range(GetVar(out, var).dims)
    THEN drop_vars(flatten_slices(out, var, 0, n), var)
    ELSE out

\* Variant of flatten_loop: leaves the loop after the first variable it
\* flattens.
RECURSIVE flatten_loop_first(_, _, _, _)
flatten_loop_first(out, vars_to_flatten, k, n) ==
    IF k > Len(vars_to_flatten) THEN out
    ELSE LET nxt == flatten_one(out, vars_to_flatten[k], n)
         IN  IF nxt # out THEN nxt
             ELSE flatten_loop_first(nxt, vars_to_flatten, k + 1, n)

\* for var in vars_to_flatten, from position k on
RECURSIVE flatten_loop(_, _, _, _)
flatten_loop(out, vars_to_flatten, k, n) ==
    IF k > Len(vars_to_flatten) THEN out
    ELSE flatten_loop(flatten_one(out, vars_to_flatten[k], n),
                      vars_to_flatten, k + 1, n)

\* any(ordered_seq_dim in out[v].dims for v in out.data_vars)
still_uses(out) ==
    \E v \in DOMAIN out.var : ordered_seq_dim \in Range(out.var[v].dims)

flatten_sequence_vars(dset, vars_to_flatten) ==
    IF ordered_seq_dim \notin Dims(dset) THEN dset
    ELSE LET n    == SizeOf(dset, ordered_seq_dim)
             out1 == flatten_loop(dset, vars_to_flatten, 1, n)
             out2 == IF ordered_seq_dim \in Dims(out1) /\ ~still_uses(out1)
                     THEN drop_dims(out1, ordered_seq_dim)
                     ELSE out1
         IN  IF ordered_seq_dim \in Variables(out2)
             THEN drop_vars(out2, ordered_seq_dim)
             ELSE out2

(***************************************************************************)
(* Input datasets                                                          *)
(***************************************************************************)
Var3(name) == [dims |-> Dims3, data |-> [src |-> name, idx |-> -1]]

Var4(name, K) ==
    [dims |-> Dims4, data |-> [i \in 1..K |-> [src |-> name, idx |-> i - 1]]]

\* Order in which the decoder lists the data variables; it is not the order
\* of SEQUENCE_VARS.
DecodedOrder == <<"swh", "wvdir", "swdir", "mpts", "shts">>

\* shape : data variable name -> "absent", "3d" or "4d"
Shapes ==
    {f \in [Range(DecodedOrder) -> {"absent", "3d", "4d"}] :
        /\ f["swh"] # "4d"
        /\ f["wvdir"] # "3d"}

DimCoords ==
    [n \in {"step", "latitude", "longitude"} |-> [dims |-> <<n>>, data |-> n]]

MakeDataset(shape, K, seqCoord, aux) ==
    LET present == {n \in Range(DecodedOrder) : shape[n] # "absent"}
        cnames  == {"step", "latitude", "longitude"}
                     \cup (IF seqCoord THEN {ordered_seq_dim} ELSE {})
                     \cup aux
    IN  [order  |-> SelectSeq(DecodedOrder, LAMBDA n : n \in present),
         var    |-> [n \in present |->
                        IF shape[n] = "4d" THEN Var4(n, K) ELSE Var3(n)],
         coords |-> [n \in cnames |->
                        IF n = ordered_seq_dim
                        THEN [dims |-> <<n>>, data |-> [i \in 1..K |-> i - 1]]
                        ELSE IF n \in aux
                        THEN [dims |-> <<>>, data |-> n]
                        ELSE DimCoords[n]]]

Datasets ==
    {MakeDataset(shape, K, seqCoord, aux) :
        shape \in Shapes, K \in 1..MaxK, seqCoord \in BOOLEAN,
        aux \in SUBSET Range(PRUNED_VARS)}

(***************************************************************************)
(* Specification of the flattener alone                                    *)
(***************************************************************************)
InitFlattener ==
    /\ fin \in Datasets
    /\ fout = None
    /\ fout2 = None
    /\ fpc = "call"
    /\ NormalizerIdle
    /\ PrunerIdle
    /\ PipelineIdle

Flatten ==
    /\ fpc = "call"
    /\ fout' = flatten_sequence_vars(fin, SEQUENCE_VARS)
    /\ fpc' = "returned"
    /\ UNCHANGED <<fin, fout2, nvars, pvars, dvars>>

FlattenAgain ==
    /\ fpc = "returned"
    /\ fout2' = flatten_sequence_vars(fout, SEQUENCE_VARS)
    /\ fpc' = "reapplied"
    /\ UNCHANGED <<fin, fout, nvars, pvars, dvars>>

NextFlattener == Flatten \/ FlattenAgain

SpecFlattener == InitFlattener /\ [][NextFlattener]_vars

(***************************************************************************)
(* Specification of the pruner alone                                       *)
(***************************************************************************)
InitPruner ==
    /\ pin \in Datasets
    /\ pout = None
    /\ pout2 = None
    /\ ppc = "call"
    /\ NormalizerIdle
    /\ FlattenerIdle
    /\ PipelineIdle

Prune ==
    /\ ppc = "call"
    /\ pout' = prune(pin)
    /\ ppc' = "returned"
    /\ UNCHANGED <<pin, pout2, nvars, fvars, dvars>>

PruneAgain ==
    /\ ppc = "returned"
    /\ pout2' = prune(pout)
    /\ ppc' = "reapplied"
    /\ UNCHANGED <<pin, pout, nvars, fvars, dvars>>

NextPruner == Prune \/ PruneAgain

SpecPruner == InitPruner /\ [][NextPruner]_vars

(***************************************************************************)
(* process_one_date                                                        *)
(***************************************************************************)
MaxFiles == 3
MaxChunkStep == 2

DEFAULT_CHUNK_STEP == 81
WRITE_CHUNK_STEP == 81

DEFAULT_FILE_PATTERN == <<"gfs.", "{date}", "/00/wave/gridded/*.grib2">>

\* file_pattern.format(date=date): the {date} field replaced, the rest kept
RECURSIVE format_date(_, _)
format_date(file_pattern, date) ==
    IF file_pattern = <<>> THEN ""
    ELSE (IF Head(file_pattern) = "{date}" THEN date ELSE Head(file_pattern))
            \o format_date(Tail(file_pattern), date)

\* pattern = f"{input_root}/{file_pattern.format(date=date)}"
glob_pattern(a) == a.input_root \o "/" \o format_date(a.file_pattern, a.date)

\* Variant of file_not_found: the message gives the date only.
file_not_found_date_only(date, pattern) ==
    [type |-> "FileNotFoundError",
     args |-> <<"No GRIB2 files for date=", date>>]

\* FileNotFoundError(f"No GRIB2 files for date={date} with pattern={pattern}")
file_not_found(date, pattern) ==
    [type |-> "FileNotFoundError",
     args |-> <<"No GRIB2 files for date=", date, " with pattern=", pattern>>]

\* out_path = f"{output_root}/{date}.zarr"
out_path(a) == a.output_root \o "/" \o a.date \o ".zarr"

\* f"[{date}] wrote {out_path}"
wrote_message(a) == "[" \o a.date \o "] wrote " \o out_path(a)

\* str(n) for a natural number, as its decimal digits
RECURSIVE Digits(_)
Digits(n) == IF n < 10 THEN <<n>> ELSE Append(Digits(n \div 10), n % 10)

\* The files of one cycle differ in the forecast hour of their name only; a
\* path is modelled by the digits of that hour.
Paths == {Digits(9 * (i - 1)) : i \in 1..MaxFiles}

\* Python's order on strings: the first differing character decides, a proper
\* prefix comes first.
LexLess(a, b) ==
    \/ \E k \in 1..Len(a) :
          /\ k <= Len(b)
          /\ \A j \in 1..(k - 1) : a[j] = b[j]
          /\ a[k] < b[k]
    \/ /\ Len(a) < Len(b)
       /\ \A j \in 1..Len(a) : a[j] = b[j]

\* sorted(glob.glob(pattern))
RECURSIVE sorted(_)
sorted(S) ==
    IF S = {} THEN <<>>
    ELSE LET m == CHOOSE x \in S : \A y \in S \ {x} : LexLess(x, y)
         IN  <<m>> \o sorted(S \ {m})

\* The forecast lead time the decoder reads from a file: the hour it holds.
RECURSIVE StepOf(_)
StepOf(path) ==
    IF Len(path) = 1 THEN path[1]
    ELSE 10 * StepOf(SubSeq(path, 1, Len(path) - 1)) + path[Len(path)]

\* cfgrib's dataset for one file: scalar step, variables over (latitude,
\* longitude) or (orderedSequenceData, latitude, longitude).
cfgrib_open(path, schema) ==
    LET whole == MakeDataset(schema.shape, schema.K, schema.seqCoord, schema.aux)
        nostep(v) == [v EXCEPT !.dims = SelectSeq(@, LAMBDA x : x # "step")]
    IN  [latitude  |-> schema.latitude,
         longitude |-> schema.longitude,
         step      |-> StepOf(path),
         order     |-> whole.order,
         var       |-> [n \in DOMAIN whole.var |-> nostep(whole.var[n])],
         coords    |-> Restrict(whole.coords,
                         DOMAIN whole.coords \ {"step", "latitude", "longitude"})]

RECURSIVE SortedNums(_)
SortedNums(S) ==
    IF S = {} THEN <<>>
    ELSE LET m == CHOOSE x \in S : \A y \in S : x <= y
         IN  <<m>> \o SortedNums(S \ {m})

\* Variant of nested_concat_steps: combine="by_coords", the step axis ordered
\* by the lead times the files hold.
by_coords_concat_steps(frames) ==
    SortedNums({frames[i].step : i \in 1..Len(frames)})

\* combine="nested", concat_dim="step": the step axis of the concatenation,
\* one entry per dataset in the order of the list
nested_concat_steps(frames) == [i \in 1..Len(frames) |-> frames[i].step]

\* dask normalize_chunks for a chunk length c on an axis of length L
normalize_chunks(c, L) ==
    IF L = 0 THEN <<0>>
    ELSE [i \in 1..(L \div c) |-> c] \o (IF L % c > 0 THEN <<L % c>> ELSE <<>>)

RECURSIVE concat_chunks(_, _)
concat_chunks(frames, c) ==
    IF frames = <<>> THEN <<>>
    ELSE normalize_chunks(c, 1) \o concat_chunks(Tail(frames), c)

\* xr.open_mfdataset(files, combine="nested", concat_dim="step",
\*                   preprocess=preprocess_slice_flip, compat="override", ...)
open_mfdataset(fl, schema) ==
    LET frames == [i \in 1..Len(fl) |->
                      preprocess_slice_flip(cfgrib_open(fl[i], schema))]
        first  == frames[1]
        axis(n) == IF n = "step" THEN nested_concat_steps(frames)
                   ELSE IF n = "latitude" THEN first.latitude
                   ELSE first.longitude
    IN  [order  |-> first.order,
         var    |-> [n \in DOMAIN first.var |->
                        [first.var[n] EXCEPT !.dims = <<"step">> \o @]],
         coords |-> [n \in DOMAIN first.coords \cup {"step", "latitude", "longitude"} |->
                        IF n \in DOMAIN first.coords THEN first.coords[n]
                        ELSE [dims |-> <<n>>, data |-> axis(n)]]]

Dates == {"20240101", "20210414"}

ChunkSteps == (1..MaxChunkStep) \cup {DEFAULT_CHUNK_STEP}

Args ==
    [date : Dates, input_root : {"/in"}, output_root : {"/out"},
     file_pattern : {DEFAULT_FILE_PATTERN}, chunk_step : ChunkSteps]

\* What the files of one cycle hold: one grid and one set of fields.
Schemas ==
    [latitude  : {<<10, 0, -30>>, <<-30, 0, 10>>},
     longitude : {<<-60, 135, 140>>},
     shape     : {f \in Shapes : f["swh"] = "3d" /\ f["mpts"] = "absent"
                                  /\ f["swdir"] = "4d"},
     K         : {MaxK},
     seqCoord  : {TRUE},
     aux       : {{}, Range(PRUNED_VARS)}]

Init ==
    /\ args \in Args
    /\ fs \in SUBSET Paths
    /\ decoded \in Schemas
    /\ pc = "start"
    /\ files = None
    /\ ds = None
    /\ chunks = None
    /\ store = None
    /\ stdout = <<>>
    /\ err = None
    /\ log = <<>>
    /\ NormalizerIdle
    /\ FlattenerIdle
    /\ PrunerIdle

\* lines 136-139, files found
Locate ==
    /\ pc = "start"
    /\ fs # {}
    /\ files' = sorted(fs)
    /\ pc' = "open"
    /\ log' = Append(log, "locate")
    /\ UNCHANGED <<args, fs, decoded, ds, chunks, store, stdout, err,
                   nvars, fvars, pvars>>

\* lines 136-139, no file matches: raise FileNotFoundError
LocateNothing ==
    /\ pc = "start"
    /\ fs = {}
    /\ files' = sorted(fs)
    /\ err' = file_not_found(args.date, glob_pattern(args))
    /\ pc' = "raised"
    /\ log' = Append(log, "locate")
    /\ UNCHANGED <<args, fs, decoded, ds, chunks, store, stdout,
                   nvars, fvars, pvars>>

\* lines 142-155
Combine ==
    /\ pc = "open"
    /\ ds' = open_mfdataset(files, decoded)
    /\ chunks' = concat_chunks(files, args.chunk_step)
    /\ pc' = "prune"
    /\ log' = Append(log, "combine")
    /\ UNCHANGED <<args, fs, decoded, files, store, stdout, err,
                   nvars, fvars, pvars>>

\* lines 142-155, the decoder fails on a file: the error propagates
CombineFails ==
    /\ pc = "open"
    /\ err' = [type |-> "DecodeError", args |-> <<>>]
    /\ pc' = "raised"
    /\ log' = Append(log, "combine")
    /\ UNCHANGED <<args, fs, decoded, files, ds, chunks, store, stdout,
                   nvars, fvars, pvars>>

\* lines 157-160
PruneStage ==
    /\ pc = "prune"
    /\ ds' = prune(ds)
    /\ pc' = "flatten"
    /\ log' = Append(log, "prune")
    /\ UNCHANGED <<args, fs, decoded, files, chunks, store, stdout, err,
                   nvars, fvars, pvars>>

\* line 163
FlattenStage ==
    /\ pc = "flatten"
    /\ ds' = flatten_sequence_vars(ds, SEQUENCE_VARS)
    /\ pc' = "chunk"
    /\ log' = Append(log, "flatten")
    /\ UNCHANGED <<args, fs, decoded, files, chunks, store, stdout, err,
                   nvars, fvars, pvars>>

\* lines 167-168: ds = ds.chunk({"step": 81})
Rechunk ==
    /\ pc = "chunk"
    /\ chunks' = normalize_chunks(WRITE_CHUNK_STEP, Len(ds.coords["step"].data))
    /\ pc' = "write"
    /\ log' = Append(log, "chunk")
    /\ UNCHANGED <<args, fs, decoded, files, ds, store, stdout, err,
                   nvars, fvars, pvars>>

\* line 169: ds.to_zarr(out_path, mode="w", consolidated=True)
Write ==
    /\ pc = "write"
    /\ store' = [path |-> out_path(args), complete |-> TRUE,
                 ds |-> ds, chunks |-> chunks]
    /\ pc' = "print"
    /\ log' = Append(log, "write")
    /\ UNCHANGED <<args, fs, decoded, files, ds, chunks, stdout, err,
                   nvars, fvars, pvars>>

\* Variant of WriteFails: the write error is swallowed and the run goes on.
WriteFailsSwallowed ==
    /\ pc = "write"
    /\ store' = [path |-> out_path(args), complete |-> FALSE,
                 ds |-> None, chunks |-> None]
    /\ pc' = "print"
    /\ log' = Append(log, "write")
    /\ UNCHANGED <<args, fs, decoded, files, ds, chunks, stdout, err,
                   nvars, fvars, pvars>>

\* line 169, the store fails mid-write: the error propagates and the store
\* is left partially overwritten
WriteFails ==
    /\ pc = "write"
    /\ store' = [path |-> out_path(args), complete |-> FALSE,
                 ds |-> None, chunks |-> None]
    /\ err' = [type |-> "WriteError", args |-> <<>>]
    /\ pc' = "raised"
    /\ log' = Append(log, "write")
    /\ UNCHANGED <<args, fs, decoded, files, ds, chunks, stdout,
                   nvars, fvars, pvars>>

\* line 170
Confirm ==
    /\ pc = "print"
    /\ stdout' = Append(stdout, wrote_message(args))
    /\ pc' = "done"
    /\ log' = Append(log, "print")
    /\ UNCHANGED <<args, fs, decoded, files, ds, chunks, store, err,
                   nvars, fvars, pvars>>

Next ==
    \/ Locate
    \/ LocateNothing
    \/ Combine
    \/ CombineFails
    \/ PruneStage
    \/ FlattenStage
    \/ Rechunk
    \/ Write
    \/ WriteFails
    \/ Confirm

Spec == Init /\ [][Next]_vars

\* The candidates of SEQUENCE_VARS that dset holds with the sequence axis.
SeqCandidates(dset) ==
    {c \in Range(SEQUENCE_VARS) :
        c \in Variables(dset) /\ ordered_seq_dim \in Range(GetVar(dset, c).dims)}

\* The data variables outside SEQUENCE_VARS that use the sequence axis.
OtherSeqVars(dset) ==
    {v \in DOMAIN dset.var \ Range(SEQUENCE_VARS) :
        ordered_seq_dim \in Range(dset.var[v].dims)}

SeqAxisGone(dset) ==
    /\ ordered_seq_dim \notin Dims(dset)
    /\ ordered_seq_dim \notin Variables(dset)

\* C4 as stated: after flatten_sequence_vars the sequence axis is absent from
\* the dimensions and no coordinate of that name remains, for every input.
C4_AxisAbsentAlways ==
    fpc = "returned" => SeqAxisGone(fout)

\* C4 amended: the sequence axis and its coordinate are absent from the
\* result whenever no data variable outside SEQUENCE_VARS uses the axis.
C4_AxisAbsentUnlessOtherUser ==
    (fpc = "returned" /\ OtherSeqVars(fin) = {}) => SeqAxisGone(fout)

\* C4 witness: a dataset with the axis, its coordinate and two candidates
\* using it has been flattened.
C4_Witness ==
    /\ fpc = "returned"
    /\ OtherSeqVars(fin) = {}
    /\ ordered_seq_dim \in DOMAIN fin.coords
    /\ Cardinality(SeqCandidates(fin)) >= 2
    /\ SeqAxisGone(fout)

\* The names flattening adds, in the order it adds them: candidates in
\* SEQUENCE_VARS order, then ascending slice index.
RECURSIVE ExpectedNew(_, _, _)
ExpectedNew(dset, k, K) ==
    IF k > Len(SEQUENCE_VARS) THEN <<>>
    ELSE (IF SEQUENCE_VARS[k] \in SeqCandidates(dset)
          THEN [j \in 1..K |-> SEQUENCE_VARS[k] \o "_" \o ToString(j - 1)]
          ELSE <<>>) \o ExpectedNew(dset, k + 1, K)

\* C5: every present candidate using the sequence axis of length K is
\* replaced by exactly name_0 .. name_{K-1}, name_i being slice i of name with
\* dimensions (step, latitude, longitude); the new variables follow the kept
\* ones in SEQUENCE_VARS order, then ascending i.
C5_FlattenCount ==
    (fpc = "returned" /\ ordered_seq_dim \in Dims(fin)) =>
        LET K    == SizeOf(fin, ordered_seq_dim)
            cand == SeqCandidates(fin)
            kept == SelectSeq(fin.order, LAMBDA n : n \notin cand)
        IN  /\ fout.order = kept \o ExpectedNew(fin, 1, K)
            /\ DOMAIN fout.var = Range(fout.order)
            /\ \A c \in cand :
                 /\ c \notin Variables(fout)
                 /\ \A i \in 0..(K - 1) :
                      LET name == c \o "_" \o ToString(i)
                      IN  /\ name \in DOMAIN fout.var
                          /\ fout.var[name].dims = Dims3
                          /\ fout.var[name].data = fin.var[c].data[i + 1]
            /\ \A n \in Range(kept) : fout.var[n] = fin.var[n]

\* C5 witness: shts and swdir with a sequence axis of length 3 became
\* shts_0..shts_2 followed by swdir_0..swdir_2.
C5_Witness ==
    /\ fpc = "returned"
    /\ SeqCandidates(fin) = {"shts", "swdir"}
    /\ Len(fout.order) >= 6
    /\ SubSeq(fout.order, Len(fout.order) - 5, Len(fout.order))
         = <<"shts_0", "shts_1", "shts_2", "swdir_0", "swdir_1", "swdir_2">>

\* C9: flattening the flattener's own output changes nothing, and a dataset
\* without the sequence axis is returned unchanged.
C9_FlattenIdempotent ==
    /\ fpc = "reapplied" => fout2 = fout
    /\ (fpc \in {"returned", "reapplied"} /\ ordered_seq_dim \notin Dims(fin))
          => fout = fin

\* C9 witness: a flattening that did change the dataset has been re-applied.
C9_Witness ==
    /\ fpc = "reapplied"
    /\ fout # fin
    /\ Cardinality(SeqCandidates(fin)) >= 2

\* C8: the pruner removes surface and valid_time when present, leaves every
\* other variable unchanged, changes nothing when both are absent, and a
\* second run yields the result of the first.
C8_Pruner ==
    /\ ppc \in {"returned", "reapplied"} =>
         /\ Variables(pout) = Variables(pin) \ {"surface", "valid_time"}
         /\ pout.order = pin.order
         /\ pout.var = pin.var
         /\ \A n \in DOMAIN pout.coords : pout.coords[n] = pin.coords[n]
         /\ ({"surface", "valid_time"} \cap Variables(pin) = {} => pout = pin)
    /\ ppc = "reapplied" => pout2 = pout

\* C8 witness: a dataset holding both fields has been pruned twice.
C8_Witness ==
    /\ ppc = "reapplied"
    /\ {"surface", "valid_time"} \subseteq Variables(pin)
    /\ pout # pin

\* The match pattern and the output location of the two cycles, written out.
ExpectedPattern(date) ==
    IF date = "20240101" THEN "/in/gfs.20240101/00/wave/gridded/*.grib2"
    ELSE "/in/gfs.20210414/00/wave/gridded/*.grib2"

ExpectedConfirmation(date) ==
    IF date = "20240101" THEN "[20240101] wrote /out/20240101.zarr"
    ELSE "[20210414] wrote /out/20210414.zarr"

RECURSIVE SumSeq(_)
SumSeq(s) == IF s = <<>> THEN 0 ELSE Head(s) + SumSeq(Tail(s))

IsPrefix(s, t) == Len(s) <= Len(t) /\ SubSeq(t, 1, Len(s)) = s

StageOrder ==
    <<"locate", "combine", "prune", "flatten", "chunk", "write", "print">>

\* C3: the chunk plan handed to the store writer covers the whole step axis
\* and no chunk is longer than the configured chunk_step.
C3_ChunkPlanUsesChunkStep ==
    (store # None /\ store.complete) =>
        /\ SumSeq(store.chunks) = Len(store.ds.coords["step"].data)
        /\ \A i \in 1..Len(store.chunks) :
              store.chunks[i] >= 1 /\ store.chunks[i] <= args.chunk_step

\* C6: the step axis of the consolidated dataset has one entry per input
\* file, entry i coming from file i of the lexicographically sorted list.
C6_StepAxisFollowsFiles ==
    ds # None =>
        LET steps == ds.coords["step"].data
        IN  /\ Len(steps) = Cardinality(fs)
            /\ Len(steps) = Len(files)
            /\ Range(files) = fs
            /\ \A i, j \in 1..Len(files) : i < j => LexLess(files[i], files[j])
            /\ \A i \in 1..Len(files) : steps[i] = StepOf(files[i])

\* C6 witness: three files whose name order is not their lead-time order
\* were combined; the step axis is in name order.
C6_Witness ==
    /\ ds # None
    /\ pc = "done"
    /\ ds.coords["step"].data = <<0, 18, 9>>

\* C7: with no matching file process_one_date raises FileNotFoundError
\* naming the attempted pattern, before any decoding, pruning, flattening,
\* store write or confirmation message.
C7_NoInputError ==
    /\ (fs = {} /\ pc # "start") =>
          /\ pc = "raised"
          /\ err # None
          /\ err.type = "FileNotFoundError"
    /\ (err # None /\ err.type = "FileNotFoundError") =>
          /\ fs = {}
          /\ ExpectedPattern(args.date) \in Range(err.args)
          /\ log = <<"locate">>
          /\ ds = None
          /\ chunks = None
          /\ store = None
          /\ stdout = <<>>

\* C7 witness: a run on an empty match has raised.
C7_Witness ==
    /\ fs = {}
    /\ pc = "raised"
    /\ err.type = "FileNotFoundError"
    /\ args.date = "20240101"

\* C10: the stages run in the order combine, prune, flatten, write; a failed
\* stage is the last one executed; the confirmation naming the output
\* location is printed once, and only after the store write succeeded.
C10_LinearStages ==
    /\ IsPrefix(log, StageOrder)
    /\ err # None =>
          /\ pc = "raised"
          /\ stdout = <<>>
          /\ log[Len(log)] =
                (IF err.type = "FileNotFoundError" THEN "locate"
                 ELSE IF err.type = "DecodeError" THEN "combine"
                 ELSE "write")
    /\ Len(stdout) <= 1
    /\ stdout # <<>> =>
          /\ store # None
          /\ store.complete
          /\ store.path = out_path(args)
          /\ stdout[1] = ExpectedConfirmation(args.date)
          /\ IsPrefix(<<"locate", "combine", "prune", "flatten", "chunk", "write">>, log)
    /\ pc = "done" => (Len(stdout) = 1 /\ log = StageOrder)

\* C10 witness: a run went through every stage and printed its confirmation.
C10_Witness ==
    /\ pc = "done"
    /\ log = StageOrder
    /\ stdout = <<"[20240101] wrote /out/20240101.zarr">>

====
